---- MODULE Spec2Model ----
(***************************************************************************)
(* so2lar (src/src/main.rs): sunrise and sunset of one location from the   *)
(* Julian day number of today.                                             *)
(*                                                                         *)
(* Numbers.  The program computes in f64.  The model holds every f64 as an *)
(* exact decimal fixed-point number with Scale units to 1.0 (four decimal  *)
(* places, the precision of the program's own literals 0.0008, 0.0053,     *)
(* 0.0069, 357.5291, 102.9372), or as NaN:                                 *)
(*   - an angle, a sine, a quotient: an integer count of units;            *)
(*   - a number of days (a Julian value, n, j_star): a record              *)
(*     [nan, i, f] standing for i + f/Scale with 0 <= f < Scale, so that   *)
(*     Julian values of the size of 2451545 keep their fraction;           *)
(* and rounds a product or quotient to the nearest unit where f64 rounds   *)
(* it to the nearest representable number.  Sums, differences, floor and   *)
(* ceil are exact, as they are in f64 for numbers of days of this size and *)
(* resolution (below 2^31 days, in steps of 1/Scale day).                  *)
(* A calendar date is identified by its day number (JDN): the Gregorian    *)
(* date of JDN k is written k.                                             *)
(***************************************************************************)
EXTENDS Integers, Sequences, FiniteSets, TLC

Scale == 10000

\* ------------------------------------------------------------ arithmetic

\* a / b rounded to the nearest integer (b > 0), halves upwards.
RoundDiv(a, b) == (2 * a + b) \div (2 * b)

\* f64's a % b (b > 0): the remainder of the division truncated towards
\* zero, which has the sign of a.
Rem(a, b) == IF a >= 0 THEN a % b ELSE -((-a) % b)

\* f64 division truncated towards zero, as TimeDelta::num_hours and
\* num_minutes truncate.
TruncDiv(a, b) == IF a >= 0 THEN a \div b ELSE -((-a) \div b)

\* A number of days i + f/Scale.
Day(i, f) == [nan |-> FALSE, i |-> i + (f \div Scale), f |-> f % Scale]
NaNDay == [nan |-> TRUE, i |-> 0, f |-> 0]
DayAdd(a, b) == IF a.nan \/ b.nan THEN NaNDay ELSE Day(a.i + b.i, a.f + b.f)
DaySub(a, b) == IF a.nan \/ b.nan THEN NaNDay ELSE Day(a.i - b.i, a.f - b.f)
\* a < b and a <= b as f64 compares: false when either is NaN.
DayLt(a, b) == ~a.nan /\ ~b.nan /\ (a.i < b.i \/ (a.i = b.i /\ a.f < b.f))
DayLe(a, b) == ~a.nan /\ ~b.nan /\ (a.i < b.i \/ (a.i = b.i /\ a.f <= b.f))
\* f64::floor and f64::ceil.
DayFloor(a) == IF a.nan THEN NaNDay ELSE Day(a.i, 0)
DayCeil(a) == IF a.nan THEN NaNDay ELSE Day(a.i + (IF a.f > 0 THEN 1 ELSE 0), 0)

\* An angle in degrees, or NaN.
Angle(v) == [nan |-> FALSE, v |-> v]
NaNAngle == [nan |-> TRUE, v |-> 0]

\* ------------------------------------------------------------ sin, asin, acos

\* sin(k degrees) * Scale for k = 0..90.
SinTable ==
  << 0, 175, 349, 523, 698, 872, 1045, 1219, 1392, 1564, 1736, 1908, 2079,
     2250, 2419, 2588, 2756, 2924, 3090, 3256, 3420, 3584, 3746, 3907, 4067,
     4226, 4384, 4540, 4695, 4848, 5000, 5150, 5299, 5446, 5592, 5736, 5878,
     6018, 6157, 6293, 6428, 6561, 6691, 6820, 6947, 7071, 7193, 7314, 7431,
     7547, 7660, 7771, 7880, 7986, 8090, 8192, 8290, 8387, 8480, 8572, 8660,
     8746, 8829, 8910, 8988, 9063, 9135, 9205, 9272, 9336, 9397, 9455, 9511,
     9563, 9613, 9659, 9703, 9744, 9781, 9816, 9848, 9877, 9903, 9925, 9945,
     9962, 9976, 9986, 9994, 9998, 10000 >>

\* sin of an angle a in 0..90 degrees: the table, linearly interpolated.
SinQ(a) ==
  LET k == a \div Scale
      r == a % Scale
  IN  IF r = 0 THEN SinTable[k + 1]
      ELSE SinTable[k + 1] + RoundDiv((SinTable[k + 2] - SinTable[k + 1]) * r, Scale)

\* x.to_radians().sin() for an angle x in degrees (units of 1/Scale degree).
Sin(x) ==
  LET a == x % (360 * Scale)
  IN  IF a <= 90 * Scale THEN SinQ(a)
      ELSE IF a <= 180 * Scale THEN SinQ(180 * Scale - a)
      ELSE IF a <= 270 * Scale THEN -SinQ(a - 180 * Scale)
      ELSE -SinQ(360 * Scale - a)

\* x.to_radians().cos()
Cos(x) == Sin(x + 90 * Scale)

\* asin of v in 0..Scale, in degrees: the table read backwards.
AsinQ(v) ==
  IF v = Scale THEN 90 * Scale
  ELSE LET k == CHOOSE k \in 0..89 : SinTable[k + 1] <= v /\ v < SinTable[k + 2]
       IN  k * Scale + RoundDiv((v - SinTable[k + 1]) * Scale,
                                SinTable[k + 2] - SinTable[k + 1])

\* v.asin().to_degrees() for v in units of 1/Scale: NaN outside [-1, 1].
Asin(v) ==
  IF v > Scale \/ v < -Scale THEN NaNAngle
  ELSE IF v >= 0 THEN Angle(AsinQ(v)) ELSE Angle(-AsinQ(-v))

\* v.acos().to_degrees(): NaN outside [-1, 1], else in [0, 180].
Acos(v) ==
  IF v > Scale \/ v < -Scale THEN NaNAngle
  ELSE Angle(90 * Scale - Asin(v).v)

\* ------------------------------------------------------------ the solar chain

J2000 == 2451545
LeapCorrection == 8
MeanAnomaly0 == 3575291
MeanAnomalyRateHi == 9856
MeanAnomalyRateLo == 28
Center1 == 19148
Center2 == 200
Center3 == 3
Perihelion == 1029372
Obliquity == 234397
Refraction == 8330
TransitM == 53
TransitL == 69

\* fn mean_solar_time(n, long): n - long / 360.0
mean_solar_time(n, long) == DaySub(n, Day(0, RoundDiv(long, 360)))

\* fn solar_mean_anomaly(j_star): (357.5291 + 0.98560028 * j_star) % 360.0
\* 0.98560028 * (i + f/Scale) degrees, in units:
\* 9856 * i + (28 * i + 9856 * f) / Scale, the last term rounded.
MeanAnomalySum(j_star) ==
  MeanAnomaly0 + MeanAnomalyRateHi * j_star.i
    + RoundDiv(MeanAnomalyRateLo * j_star.i + MeanAnomalyRateHi * j_star.f, Scale)
solar_mean_anomaly(j_star) == Rem(MeanAnomalySum(j_star), 360 * Scale)

\* normalized_date with floor for ceil.
normalized_date_floor(j_date) ==
  DayFloor(DayAdd(DaySub(j_date, Day(J2000, 0)), Day(0, LeapCorrection)))

\* fn normalized_date(j_date): (j_date - 2451545.0 + 0.0008).ceil()
normalized_date(j_date) ==
  DayCeil(DayAdd(DaySub(j_date, Day(J2000, 0)), Day(0, LeapCorrection)))

\* fn equation_of_the_center(m)
equation_of_the_center(m) ==
  RoundDiv(Center1 * Sin(m), Scale) + RoundDiv(Center2 * Sin(2 * m), Scale)
    + RoundDiv(Center3 * Sin(3 * m), Scale)

\* fn ecliptic_longitude(m, c): (m + c + 180.0 + 102.9372) % 360.0
EclipticSum(m, c) == m + c + 180 * Scale + Perihelion
ecliptic_longitude(m, c) == Rem(EclipticSum(m, c), 360 * Scale)

\* fn declination_of_the_sun(lambda)
declination_of_the_sun(lambda) ==
  Asin(RoundDiv(Sin(lambda) * Sin(Obliquity), Scale)).v

\* The argument of acos in hour_angle, as [inf, v]: the quotient is infinite
\* (or NaN) when the denominator is 0.
HourAngleArg(lat, delta) ==
  LET num == Sin(-Refraction) - RoundDiv(Sin(lat) * Sin(delta), Scale)
      den == RoundDiv(Cos(lat) * Cos(delta), Scale)
  IN  IF den = 0 THEN [inf |-> TRUE, v |-> 0]
      ELSE IF den > 0 THEN [inf |-> FALSE, v |-> RoundDiv(num * Scale, den)]
      ELSE [inf |-> FALSE, v |-> -RoundDiv(num * Scale, -den)]

\* hour_angle with the argument of acos clamped to [-1, 1].
hour_angle_clamped(lat, delta) ==
  LET x == HourAngleArg(lat, delta)
  IN  IF x.inf THEN NaNAngle
      ELSE IF x.v > Scale THEN Acos(Scale)
      ELSE IF x.v < -Scale THEN Acos(-Scale)
      ELSE Acos(x.v)

\* fn hour_angle(lat, delta)
hour_angle(lat, delta) ==
  LET x == HourAngleArg(lat, delta)
  IN  IF x.inf THEN NaNAngle ELSE Acos(x.v)

\* fn transit(j_star, m, lambda)
transit(j_star, m, lambda) ==
  DayAdd(DayAdd(Day(J2000, 0), j_star),
         Day(0, RoundDiv(TransitM * Sin(m), Scale)
                  - RoundDiv(TransitL * Sin(2 * lambda), Scale)))

\* fn get_sunrise_sunset(lat, long, today), with the intermediate values it
\* logs; the function returns (j_rise, j_set).
get_sunrise_sunset(lat, long, today) ==
  LET n == normalized_date(today)
      j_star == mean_solar_time(n, long)
      m == solar_mean_anomaly(j_star)
      c == equation_of_the_center(m)
      lambda == ecliptic_longitude(m, c)
      delta == declination_of_the_sun(lambda)
      omega_0 == hour_angle(lat, delta)
      j_transit == transit(j_star, m, lambda)
      half == IF omega_0.nan THEN NaNDay ELSE Day(0, RoundDiv(omega_0.v, 360))
  IN  [n |-> n, j_star |-> j_star, m |-> m, c |-> c, lambda |-> lambda,
       delta |-> delta, arg |-> HourAngleArg(lat, delta), omega_0 |-> omega_0,
       j_transit |-> j_transit,
       j_rise |-> DaySub(j_transit, half), j_set |-> DayAdd(j_transit, half)]

\* ------------------------------------------------------------ julian2datetime

SecondsPerDay == 86400
HalfDay == 43200
\* The first and last date chrono's NaiveDate holds (-262143-01-01 and
\* 262142-12-31), as day numbers.
NaiveDateMinJdn == -94024704
NaiveDateMaxJdn == 97466824

\* `j.floor() as i32`: the cast of NaN is 0 (every other day number of the
\* model lies inside i32).
FloorAsI32(j) == IF j.nan THEN 0 ELSE DayFloor(j).i

\* TimeOfDay with the seconds rounded to the nearest instead of truncated.
TimeOfDayRounded(j) ==
  IF j.nan THEN [frac |-> 0, h |-> 0, m |-> 0, s |-> 0]
  ELSE LET frac == DaySub(j, DayFloor(j)).f
           rem1 == frac * 24
           h    == rem1 \div Scale
           rem2 == (rem1 - h * Scale) * 60
           m    == rem2 \div Scale
           rem3 == (rem2 - m * Scale) * 60
           s    == RoundDiv(rem3, Scale)
       IN  [frac |-> frac, h |-> h, m |-> m, s |-> s]

\* Lines 9 to 15: the fraction of the day, times 24, and its successive
\* floors and remainders; `x as u32` of NaN is 0.
TimeOfDay(j) ==
  IF j.nan THEN [frac |-> 0, h |-> 0, m |-> 0, s |-> 0]
  ELSE LET frac == DaySub(j, DayFloor(j)).f
           rem1 == frac * 24
           h    == rem1 \div Scale
           rem2 == (rem1 - h * Scale) * 60
           m    == rem2 \div Scale
           rem3 == (rem2 - m * Scale) * 60
           s    == rem3 \div Scale
       IN  [frac |-> frac, h |-> h, m |-> m, s |-> s]

\* NaiveDate::try_from(date): Some inside NaiveDate's range.
NaiveDateOk(jdn) == NaiveDateMinJdn <= jdn /\ jdn <= NaiveDateMaxJdn

\* NaiveTime::from_hms_opt(h, m, s) is Some.
FromHmsOk(t) == t.h < 24 /\ t.m < 60 /\ t.s < 60

\* NaiveAdd without the carry into the date.
NaiveAddNoCarry(ndt, d) ==
  [date |-> ndt.date, secs |-> (ndt.secs + d) % SecondsPerDay]

\* A NaiveDateTime [date, secs] plus d seconds.
NaiveAdd(ndt, d) ==
  [date |-> ndt.date + ((ndt.secs + d) \div SecondsPerDay),
   secs |-> (ndt.secs + d) % SecondsPerDay]

\* The value a call of julian2datetime ends with: a DateTime<Local>, held
\* as its UTC date and second of the day and the local offset in seconds,
\* or a panic of one of the unwraps (ok = FALSE).
Panicked == [ok |-> FALSE, date |-> 0, secs |-> 0, off |-> 0]
DateTime(ndt, off) == [ok |-> TRUE, date |-> ndt.date, secs |-> ndt.secs, off |-> off]

\* What the DateTime shows in its own zone.
LocalOf(dt) == NaiveAdd([date |-> dt.date, secs |-> dt.secs], dt.off)

\* Line 20 left out.
AddHours12Missing(ndt) == ndt

\* date + TimeDelta::hours(12): moves the instant; panics outside the range.
AddHours12(ndt) == NaiveAdd(ndt, HalfDay)

\* Line 21 left out.
SubOneDaySkipped(ndt, off) == ndt

\* date.checked_sub_days(Days::new(1)): the local date-time one calendar day
\* earlier, taken back to UTC with the (constant) offset.
SubOneDay(ndt, off) ==
  LET local == NaiveAdd(ndt, off)
  IN  NaiveAdd([date |-> local.date - 1, secs |-> local.secs], -off)

\* fn julian2datetime(j), on a host whose UTC offset is off seconds.
julian2datetime(j, off) ==
  LET jdn   == FloorAsI32(j)
      t     == TimeOfDay(j)
      naive == [date |-> jdn, secs |-> t.h * 3600 + t.m * 60 + t.s]
      plus  == AddHours12(naive)
      back  == SubOneDay(plus, off)
  IN  IF ~NaiveDateOk(jdn) THEN Panicked
      ELSE IF ~FromHmsOk(t) THEN Panicked
      ELSE IF ~NaiveDateOk(plus.date) THEN Panicked
      ELSE IF ~NaiveDateOk(NaiveAdd(plus, off).date - 1) \/ ~NaiveDateOk(back.date)
           THEN Panicked
      ELSE DateTime(back, off)

\* ------------------------------------------------------------ main

\* set - rise: the TimeDelta between two DateTimes, in seconds.
Duration(rise, set) == (set.date - rise.date) * SecondsPerDay + set.secs - rise.secs

\* The "Sun length" line with the seconds taken from the hours.
SunLengthWrong(len) ==
  [H |-> TruncDiv(len, 3600),
   M |-> TruncDiv(len, 60) - TruncDiv(len, 3600) * 60,
   S |-> len - TruncDiv(len, 3600) * 3600]

\* The three numbers of the "Sun length" line (line 99).
SunLength(len) ==
  [H |-> TruncDiv(len, 3600),
   M |-> TruncDiv(len, 60) - TruncDiv(len, 3600) * 60,
   S |-> len - TruncDiv(len, 60) * 60]

\* lat = 48 + 21/60 + 19.1/60^2, long = 9 + 54/60 + 21.9/60^2 (lines 85, 87).
MainLat == 48 * Scale + RoundDiv(21 * Scale, 60) + RoundDiv(191 * Scale, 36000)
MainLong == 9 * Scale + RoundDiv(54 * Scale, 60) + RoundDiv(219 * Scale, 36000)

VARIABLES pc, lat, long, off, today, rise, set, rise_dt, set_dt, len, stdout,
          fn, args, ret
mainVars == << pc, lat, long, off, today, rise, set, rise_dt, set_dt, len, stdout >>
fnVars == << fn, args, ret >>
vars == << pc, lat, long, off, today, rise, set, rise_dt, set_dt, len, stdout,
           fn, args, ret >>

\* Bounds of the inputs.
Today0 == 2460390
MaxDays == 40
MaxOffsetHours == 1

Offsets == { h * 3600 : h \in -MaxOffsetHours..MaxOffsetHours }
\* The days the clock may show: MaxDays days from 2024-03-20.
ClockDays == { Today0 + k : k \in 0..MaxDays }

InitFn == fn = "none" /\ args = << >> /\ ret = << >>

Init ==
  /\ pc = "clock"
  /\ lat = MainLat /\ long = MainLong
  /\ off \in Offsets
  /\ today = NaNDay /\ rise = NaNDay /\ set = NaNDay
  /\ rise_dt = Panicked /\ set_dt = Panicked
  /\ len = 0
  /\ stdout = << >>
  /\ InitFn

\* Line 89, the clock read: Ok with the day number of today.
ClockOk ==
  /\ pc = "clock"
  /\ \E d \in ClockDays : today' = Day(d, 0)
  /\ pc' = "calc"
  /\ UNCHANGED << lat, long, off, rise, set, rise_dt, set_dt, len, stdout >>
  /\ UNCHANGED fnVars

\* Line 89, the clock read: Err, which `?` returns from main.
ClockErr ==
  /\ pc = "clock"
  /\ pc' = "error"
  /\ UNCHANGED << lat, long, off, today, rise, set, rise_dt, set_dt, len, stdout >>
  /\ UNCHANGED fnVars

\* Line 91.
Calc ==
  /\ pc = "calc"
  /\ LET r == get_sunrise_sunset(lat, long, today)
     IN  rise' = r.j_rise /\ set' = r.j_set
  /\ pc' = "conv_rise"
  /\ UNCHANGED << lat, long, off, today, rise_dt, set_dt, len, stdout >>
  /\ UNCHANGED fnVars

\* Line 94.
ConvRise ==
  /\ pc = "conv_rise"
  /\ rise_dt' = julian2datetime(rise, off)
  /\ pc' = IF rise_dt'.ok THEN "conv_set" ELSE "panic"
  /\ UNCHANGED << lat, long, off, today, rise, set, set_dt, len, stdout >>
  /\ UNCHANGED fnVars

\* Line 95.
ConvSet ==
  /\ pc = "conv_set"
  /\ set_dt' = julian2datetime(set, off)
  /\ pc' = IF set_dt'.ok THEN "len" ELSE "panic"
  /\ UNCHANGED << lat, long, off, today, rise, set, rise_dt, len, stdout >>
  /\ UNCHANGED fnVars

\* Line 96.
Len96 ==
  /\ pc = "len"
  /\ len' = Duration(rise_dt, set_dt)
  /\ pc' = "print_sunrise"
  /\ UNCHANGED << lat, long, off, today, rise, set, rise_dt, set_dt, stdout >>
  /\ UNCHANGED fnVars

\* Line 97.
PrintSunrise ==
  /\ pc = "print_sunrise"
  /\ stdout' = Append(stdout, [line |-> "Sunrise", at |-> LocalOf(rise_dt)])
  /\ pc' = "print_sunset"
  /\ UNCHANGED << lat, long, off, today, rise, set, rise_dt, set_dt, len >>
  /\ UNCHANGED fnVars

\* Line 98 with a conversion that fails inside it.
PrintSunsetFails ==
  /\ pc = "print_sunset"
  /\ pc' = "panic"
  /\ UNCHANGED << lat, long, off, today, rise, set, rise_dt, set_dt, len, stdout >>
  /\ UNCHANGED fnVars

\* Line 98.
PrintSunset ==
  /\ pc = "print_sunset"
  /\ stdout' = Append(stdout, [line |-> "Sunset", at |-> LocalOf(set_dt)])
  /\ pc' = "print_length"
  /\ UNCHANGED << lat, long, off, today, rise, set, rise_dt, set_dt, len >>
  /\ UNCHANGED fnVars

\* Lines 99 and 100.
PrintLength ==
  /\ pc = "print_length"
  /\ stdout' = Append(stdout, [line |-> "Sun length", hms |-> SunLength(len)])
  /\ pc' = "done"
  /\ UNCHANGED << lat, long, off, today, rise, set, rise_dt, set_dt, len >>
  /\ UNCHANGED fnVars

Next ==
  \/ ClockOk \/ ClockErr \/ Calc \/ ConvRise \/ ConvSet \/ Len96
  \/ PrintSunrise \/ PrintSunset \/ PrintLength

Spec == Init /\ [][Next]_vars

\* ------------------------------------------------------------ the conversions, called on their own

\* The state in which the functions below are called on inputs of their own:
\* main stands still and fn names the function that has been applied.
InitCall ==
  /\ pc = "call"
  /\ lat = MainLat /\ long = MainLong
  /\ off \in Offsets
  /\ today = NaNDay /\ rise = NaNDay /\ set = NaNDay
  /\ rise_dt = Panicked /\ set_dt = Panicked
  /\ len = 0
  /\ stdout = << >>
  /\ InitFn

\* Bounds of the inputs.
MaxConvDays == 1
MaxGap == 1
MaxLenSecs == 7300
MaxLenDays == 1

\* Julian values: every fraction of JDN 0 and of 2024-03-20, and the
\* fractions at the turns of the day and half day of the days before and
\* after them and of the days at both ends of NaiveDate's range.
FullDays == { 0, Today0 }
EdgeDays ==
  { -1, 1 } \cup { Today0 + k : k \in 1..MaxConvDays } \cup { Today0 - 1 }
    \cup { NaiveDateMinJdn - 1, NaiveDateMinJdn, NaiveDateMaxJdn, NaiveDateMaxJdn + 1 }
EdgeFractions == { 0, 1, Scale \div 2 - 1, Scale \div 2, Scale \div 2 + 1, Scale - 1 }
JulianValues ==
  { Day(d, f) : d \in FullDays, f \in 0..(Scale - 1) }
    \cup { Day(d, f) : d \in EdgeDays, f \in EdgeFractions }
    \cup { NaNDay }

\* julian2datetime(j).
CallJulian2datetime ==
  /\ fn = "none"
  /\ \E j \in JulianValues :
       /\ args' = [j |-> j, off |-> off]
       /\ ret' = [t |-> TimeOfDay(j), dt |-> julian2datetime(j, off)]
  /\ fn' = "julian2datetime"
  /\ UNCHANGED mainVars

\* Lines 94 to 99 of main on a pair of Julian values a and b = a + gap.
Gaps == (0..MaxGap) \cup { Scale \div 2, Scale }
CallSunPair ==
  /\ fn = "none"
  /\ \E f \in 0..(Scale - 1), gap \in Gaps :
       LET a == Day(Today0, f)
           b == DayAdd(a, Day(0, gap))
           r == julian2datetime(a, off)
           s == julian2datetime(b, off)
       IN  /\ args' = [a |-> a, b |-> b, off |-> off]
           /\ ret' = [rise |-> r, set |-> s, len |-> Duration(r, s),
                      hms |-> SunLength(Duration(r, s))]
  /\ fn' = "sun_pair"
  /\ UNCHANGED mainVars

\* Lines 96 and 99 of main on a pair of date-times.
CallSunLength ==
  /\ fn = "none"
  /\ \E d \in 0..MaxLenDays, s \in 0..MaxLenSecs :
       LET r == DateTime([date |-> Today0, secs |-> SecondsPerDay - 60], off)
           e == DateTime(NaiveAdd([date |-> Today0 + d, secs |-> SecondsPerDay - 60], s), off)
       IN  /\ args' = [rise |-> r, set |-> e]
           /\ ret' = [len |-> Duration(r, e), hms |-> SunLength(Duration(r, e))]
  /\ fn' = "sun_length"
  /\ UNCHANGED mainVars

\* The transit of an integer day at longitude 0 with both sine terms of
\* transit 0 (m = 0 and lambda = 0), and its conversion.
CallNoon ==
  /\ fn = "none"
  /\ \E d \in ClockDays :
       LET j == transit(mean_solar_time(normalized_date(Day(d, 0)), 0), 0, 0)
       IN  /\ args' = [today |-> d, off |-> off]
           /\ ret' = [j_transit |-> j, dt |-> julian2datetime(j, off)]
  /\ fn' = "noon"
  /\ UNCHANGED mainVars

NextConv == CallJulian2datetime \/ CallNoon
SpecConv == InitCall /\ [][NextConv]_vars

NextLen == CallSunPair \/ CallSunLength
SpecLen == InitCall /\ [][NextLen]_vars

\* ------------------------------------------------------------ the solar chain, called on its own

LatStep == Scale \div 2
MaxJStar == 400

\* Latitudes every half degree from pole to pole, and that of main.
Latitudes == { k * LatStep : k \in (-(90 * Scale) \div LatStep)..((90 * Scale) \div LatStep) }
               \cup { MainLat }
Longitudes == { 0, MainLong, -180 * Scale, 180 * Scale }

CallGetSunriseSunset ==
  /\ fn = "none"
  /\ \E la \in Latitudes, lo \in Longitudes, d \in ClockDays :
       /\ args' = [lat |-> la, long |-> lo, today |-> Day(d, 0)]
       /\ ret' = get_sunrise_sunset(la, lo, Day(d, 0))
  /\ fn' = "get_sunrise_sunset"
  /\ UNCHANGED mainVars

\* normalized_date on every fraction of the day before J2000 and of
\* 2024-03-20, and on the day after.
CallNormalizedDate ==
  /\ fn = "none"
  /\ \E d \in { J2000 - 1, Today0 }, f \in 0..(Scale - 1) :
       /\ args' = [j_date |-> Day(d, f)]
       /\ ret' = [n |-> normalized_date(Day(d, f)),
                  next |-> normalized_date(DayAdd(Day(d, f), Day(1, 0)))]
  /\ fn' = "normalized_date"
  /\ UNCHANGED mainVars

\* solar_mean_anomaly on days before and after J2000.
CallSolarMeanAnomaly ==
  /\ fn = "none"
  /\ \E d \in (-MaxJStar)..MaxJStar, f \in { 0, Scale \div 4, Scale \div 2 } :
       /\ args' = [j_star |-> Day(d, f)]
       /\ ret' = [sum |-> MeanAnomalySum(Day(d, f)), m |-> solar_mean_anomaly(Day(d, f))]
  /\ fn' = "solar_mean_anomaly"
  /\ UNCHANGED mainVars

\* ecliptic_longitude on anomalies every 5 degrees in (-360, 360) and
\* centers of -2, 0 and 2 degrees.
CallEclipticLongitude ==
  /\ fn = "none"
  /\ \E k \in -71..71, c \in { -2 * Scale, 0, 2 * Scale } :
       /\ args' = [m |-> k * 5 * Scale, c |-> c]
       /\ ret' = [sum |-> EclipticSum(k * 5 * Scale, c),
                  lambda |-> ecliptic_longitude(k * 5 * Scale, c)]
  /\ fn' = "ecliptic_longitude"
  /\ UNCHANGED mainVars

NextSolar ==
  \/ CallGetSunriseSunset \/ CallNormalizedDate
  \/ CallSolarMeanAnomaly \/ CallEclipticLongitude

\* The host's offset plays no part in the solar chain.
InitSolar == InitCall /\ off = 0
SpecSolar == InitSolar /\ [][NextSolar]_vars

\* ------------------------------------------------------------ the claims

Zero == Day(0, 0)
One == Day(1, 0)

\* C1 as stated: whenever omega_0 is a number, j_rise < j_transit < j_set
\* and 0 < j_set - j_rise < 1, strictly, also when the argument of acos is
\* exactly 1 or exactly -1.
C1_StrictOrdering ==
  (fn = "get_sunrise_sunset" /\ ~ret.omega_0.nan) =>
    /\ DayLt(ret.j_rise, ret.j_transit) /\ DayLt(ret.j_transit, ret.j_set)
    /\ DayLt(Zero, DaySub(ret.j_set, ret.j_rise))
    /\ DayLt(DaySub(ret.j_set, ret.j_rise), One)

\* C1 amended: whenever omega_0 is a number, j_rise = j_transit - omega_0/360
\* and j_set = j_transit + omega_0/360 satisfy j_rise <= j_transit <= j_set
\* and 0 <= j_set - j_rise <= 1; the three are distinct unless the argument
\* of acos is exactly 1 (omega_0 = 0, the three coincide), and the
\* difference is below 1 unless the argument is exactly -1 (omega_0 = 180,
\* the difference is exactly 1).
C1_Ordering ==
  (fn = "get_sunrise_sunset" /\ ~ret.omega_0.nan) =>
    LET diff == DaySub(ret.j_set, ret.j_rise)
        half == Day(0, RoundDiv(ret.omega_0.v, 360))
    IN  /\ ~ret.arg.inf /\ -Scale <= ret.arg.v /\ ret.arg.v <= Scale
        /\ 0 <= ret.omega_0.v /\ ret.omega_0.v <= 180 * Scale
        /\ ret.j_rise = DaySub(ret.j_transit, half)
        /\ ret.j_set = DayAdd(ret.j_transit, half)
        /\ DayLe(ret.j_rise, ret.j_transit) /\ DayLe(ret.j_transit, ret.j_set)
        /\ DayLe(Zero, diff) /\ DayLe(diff, One)
        /\ (ret.arg.v # Scale =>
              /\ DayLt(ret.j_rise, ret.j_transit) /\ DayLt(ret.j_transit, ret.j_set)
              /\ DayLt(Zero, diff))
        /\ (ret.arg.v # -Scale => DayLt(diff, One))
        /\ (ret.arg.v = Scale => ret.j_rise = ret.j_transit /\ ret.j_set = ret.j_transit)
        /\ (ret.arg.v = -Scale => diff = One)

\* The argument of acos is exactly 1 and sunrise, transit and sunset coincide.
C1_Witness ==
  /\ fn = "get_sunrise_sunset" /\ ~ret.omega_0.nan
  /\ ret.arg.v = Scale /\ ret.j_rise = ret.j_set

C3_NaNNotPropagated ==
  (fn = "get_sunrise_sunset" /\ ret.omega_0.nan) =>
    /\ ret.j_rise.nan /\ ret.j_set.nan
    /\ \A o \in Offsets :
         /\ ~julian2datetime(ret.j_rise, o).ok
         /\ ~julian2datetime(ret.j_set, o).ok

\* C4: for a pair of date-times with set at or after rise, the numbers of
\* the Sun length line satisfy H*3600 + M*60 + S = the seconds of set - rise,
\* H the whole hours, 0 <= M <= 59 and 0 <= S <= 59.
C4_SunLength ==
  (fn = "sun_length" /\ ret.len >= 0) =>
    /\ ret.len = (args.set.date - args.rise.date) * SecondsPerDay
                   + args.set.secs - args.rise.secs
    /\ ret.hms.H * 3600 + ret.hms.M * 60 + ret.hms.S = ret.len
    /\ ret.hms.H * 3600 <= ret.len /\ ret.len < (ret.hms.H + 1) * 3600
    /\ 0 <= ret.hms.M /\ ret.hms.M <= 59
    /\ 0 <= ret.hms.S /\ ret.hms.S <= 59

\* A length of 1h, 59m, 59s.
C4_Witness == fn = "sun_length" /\ ret.hms = [H |-> 1, M |-> 59, S |-> 59]

UtcOf(j, t) == [date |-> FloorAsI32(j), secs |-> t.h * 3600 + t.m * 60 + t.s]

\* C6 as stated, the date label being the one the returned DateTime<Local>
\* shows: the instant is 12 hours before the UTC date-time, and the label
\* is one day before the date of floor(j) exactly when the time of day plus
\* 12 hours stays below 24 hours.
C6_LocalLabel ==
  (fn = "julian2datetime" /\ ~args.j.nan /\ ret.dt.ok) =>
    LET utc == UtcOf(args.j, ret.t)
    IN  /\ Duration(ret.dt, DateTime(utc, args.off)) = HalfDay
        /\ (LocalOf(ret.dt).date = utc.date - 1) <=> (utc.secs + HalfDay < SecondsPerDay)

\* C6 amended: the returned instant is exactly 12 hours before the UTC
\* date-time (date of floor(j) at the decomposed time of day) whatever the
\* constant offset; its date in UTC is one day before the date of floor(j)
\* exactly when the time of day plus 12 hours does not cross midnight; the
\* date it shows in the local zone is one day before the local date of that
\* UTC date-time exactly when the local time of day plus 12 hours does not
\* cross midnight, which is the same statement when the offset is 0.
C6_Rebase ==
  (fn = "julian2datetime" /\ ~args.j.nan /\ ret.dt.ok) =>
    LET utc == UtcOf(args.j, ret.t)
        local == LocalOf(DateTime(utc, args.off))
    IN  /\ ret.dt.off = args.off
        /\ Duration(ret.dt, DateTime(utc, args.off)) = HalfDay
        /\ (ret.dt.date = utc.date - 1) <=> (utc.secs + HalfDay < SecondsPerDay)
        /\ (LocalOf(ret.dt).date = local.date - 1) <=> (local.secs + HalfDay < SecondsPerDay)
        /\ args.off = 0 => local = utc /\ LocalOf(ret.dt).date = ret.dt.date

\* On a host one hour from UTC, a time of day whose 12-hour shift crosses
\* midnight locally but not in UTC.
C6_Witness ==
  /\ fn = "julian2datetime" /\ ~args.j.nan /\ ret.dt.ok /\ args.off = 3600
  /\ ret.t.h = 11 /\ LocalOf(ret.dt).date = FloorAsI32(args.j)

\* C7: normalized_date(j_date) is a whole number, the smallest one not below
\* j_date - 2451545.0 + 0.0008; for a whole j_date it is j_date - 2451545 + 1;
\* and normalized_date(j_date + 1) = normalized_date(j_date) + 1.
C7_NormalizedDate ==
  fn = "normalized_date" =>
    LET x == Day(args.j_date.i - J2000, args.j_date.f + LeapCorrection)
    IN  /\ ~ret.n.nan /\ ret.n.f = 0
        /\ DayLe(x, ret.n)
        /\ DayLt(DaySub(ret.n, One), x)
        /\ (args.j_date.f = 0 => ret.n = Day(args.j_date.i - J2000 + 1, 0))
        /\ ret.next = DayAdd(ret.n, One)

\* A j_date whose fraction is within 0.0008 of the next day: the result is
\* two above the whole part of j_date - 2451545.
C7_Witness ==
  /\ fn = "normalized_date" /\ args.j_date.f > Scale - LeapCorrection
  /\ ret.n = Day(args.j_date.i - J2000 + 2, 0)

\* The true UTC instant of Julian date j and the instant julian2datetime
\* returns, both in units of 1/Scale second after 00:00 UTC of the date of
\* floor(j): day k begins at noon UTC of its date.
TrueInstant(j) == HalfDay * Scale + j.f * SecondsPerDay
ShownInstant(j, dt) ==
  Duration(DateTime([date |-> FloorAsI32(j), secs |-> 0], dt.off), dt) * Scale

\* The transit of a whole day today at longitude 0 with the sine terms 0 is
\* today + 1, and its conversion is 12:00:00 UTC on the date of today.
NoonOfToday ==
  fn = "noon" =>
    /\ ret.j_transit = Day(args.today + 1, 0)
    /\ ret.dt = DateTime([date |-> args.today, secs |-> HalfDay], args.off)

C9_Monotone ==
  (fn = "sun_pair" /\ DayLe(args.a, args.b) /\ ret.rise.ok /\ ret.set.ok) =>
    /\ Duration(ret.rise, ret.set) >= 0
    /\ ret.len >= 0
    /\ ret.hms.H >= 0 /\ ret.hms.M >= 0 /\ ret.hms.S >= 0
    /\ (LocalOf(ret.rise).date < LocalOf(ret.set).date
        \/ (LocalOf(ret.rise).date = LocalOf(ret.set).date
            /\ LocalOf(ret.rise).secs <= LocalOf(ret.set).secs))

\* a just before and b just after the point where the 12-hour shift crosses
\* midnight: the results lie on different dates, one second apart or more.
C9_Witness ==
  /\ fn = "sun_pair" /\ args.a.i = args.b.i
  /\ args.a.f < Scale \div 2 /\ args.b.f >= Scale \div 2
  /\ ret.rise.ok /\ ret.set.ok /\ ret.rise.date < ret.set.date /\ ret.len > 0

\* C10 as stated: solar_mean_anomaly and ecliptic_longitude return an angle
\* in [0, 360), also when the sum they reduce is negative.
C10_ModRange ==
  /\ fn = "solar_mean_anomaly" => 0 <= ret.m /\ ret.m < 360 * Scale
  /\ fn = "ecliptic_longitude" => 0 <= ret.lambda /\ ret.lambda < 360 * Scale
====
